---- MODULE Spec2Model ----
(***************************************************************************)
(* routerify-query: the query_parser middleware and the RequestQueryExt    *)
(* accessors, as a state machine over the requests of one server.          *)
(*                                                                         *)
(* Text is a sequence of numbers: bytes before decoding, Unicode code      *)
(* points after it.  A HashMap is a function whose DOMAIN is its key set.  *)
(***************************************************************************)
EXTENDS Integers, Sequences, FiniteSets, TLC

VARIABLES uri, ext, pc, binds, last, first

vars == <<uri, ext, pc, binds, last, first>>

----------------------------------------------------------------------------
(* Bounds of the model.                                                    *)

\* longest raw query string enumerated for the decoder (SpecDecode)
MaxLen == 5
\* longest raw query string enumerated for the request life cycle (Spec)
MaxUriLen == 3
\* how many times the middleware may run on one request
MaxBinds == 2

----------------------------------------------------------------------------
(* Bytes and code points the decoder distinguishes.                        *)

Amp == 38
Eq == 61
Plus == 43
Pct == 37
Space == 32
LetterB == 98
Digit2 == 50
Digit6 == 54
\* U+FFFD REPLACEMENT CHARACTER, what a lossy UTF-8 decode puts for bad bytes
Replacement == 65533

\* The bytes raw query strings are built from: "b", "2", "6" are hex digits
\* as well as names and values, so "%26" is "&", "%2b" is "+", "%b2" is a
\* byte that is not UTF-8, and "%", "%2", "%=" are malformed escapes.
Alphabet == {LetterB, Digit2, Digit6, Eq, Amp, Plus, Pct}

RECURSIVE Strings(_)
Strings(n) ==
    IF n = 0 THEN {<<>>}
    ELSE LET shorter == Strings(n - 1)
         IN shorter \cup {Append(s, c) : s \in {t \in shorter : Len(t) = n - 1}, c \in Alphabet}

None == [tag |-> "None"]
Some(v) == [tag |-> "Some", val |-> v]

\* Uri::query(): None without a `?`, Some(text after the `?`) otherwise
DecodeUris == {None} \cup {Some(s) : s \in Strings(MaxLen)}
Uris == {None} \cup {Some(s) : s \in Strings(MaxUriLen)}
TwoUris == {None, Some(<<LetterB, Eq, Digit2>>), Some(<<LetterB, Eq, Digit6>>)}

ReqIds == {"r1", "r2"}
OneReq == {"r1"}

\* the name the handlers look up (present in some of the enumerated query
\* strings, absent from the others), and the target types of query_parsed
LookupNames == {<<LetterB>>}
ParseTypes == {"usize", "String"}

----------------------------------------------------------------------------
(* url::form_urlencoded::parse, as called by the middleware.               *)

IndexOf(s, c) ==
    IF \E i \in 1..Len(s) : s[i] = c
    THEN CHOOSE i \in 1..Len(s) : s[i] = c /\ \A j \in 1..(i - 1) : s[j] # c
    ELSE 0

\* slice::splitn(2, |b| b == c): at most two parts, cut at the first c
splitn2(s, c) ==
    LET i == IndexOf(s, c)
    IN IF i = 0 THEN <<s>> ELSE <<SubSeq(s, 1, i - 1), SubSeq(s, i + 1, Len(s))>>

replace_plus(input) ==
    [i \in 1..Len(input) |-> IF input[i] = Plus THEN Space ELSE input[i]]

HexVal(b) ==
    IF b >= 48 /\ b <= 57 THEN b - 48
    ELSE IF b >= 65 /\ b <= 70 THEN b - 55
    ELSE IF b >= 97 /\ b <= 102 THEN b - 87
    ELSE -1

\* percent_encoding::percent_decode: "%" and two hex digits give one byte,
\* any other "%" is kept as it is
RECURSIVE percent_decode(_)
percent_decode(s) ==
    IF s = <<>> THEN <<>>
    ELSE IF s[1] = Pct /\ Len(s) >= 3 /\ HexVal(s[2]) >= 0 /\ HexVal(s[3]) >= 0
         THEN <<HexVal(s[2]) * 16 + HexVal(s[3])>> \o percent_decode(SubSeq(s, 4, Len(s)))
         ELSE <<s[1]>> \o percent_decode(Tail(s))

\* String::from_utf8_lossy on the decoded bytes: ASCII is kept, a two-byte
\* sequence gives its code point, a byte that starts no valid sequence gives
\* U+FFFD.  (Lead bytes of three- and four-byte sequences, E0..F4, cannot be
\* written with the hex digits of Alphabet.)
RECURSIVE decode_utf8_lossy(_)
decode_utf8_lossy(s) ==
    IF s = <<>> THEN <<>>
    ELSE IF s[1] < 128 THEN <<s[1]>> \o decode_utf8_lossy(Tail(s))
    ELSE IF s[1] >= 194 /\ s[1] <= 223 /\ Len(s) >= 2 /\ s[2] >= 128 /\ s[2] <= 191
         THEN <<(s[1] - 192) * 64 + (s[2] - 128)>> \o decode_utf8_lossy(SubSeq(s, 3, Len(s)))
    ELSE <<Replacement>> \o decode_utf8_lossy(Tail(s))

\* variant: the escapes are resolved before "+" is replaced
decode_plus_last(input) == decode_utf8_lossy(replace_plus(percent_decode(input)))

decode(input) == decode_utf8_lossy(percent_decode(replace_plus(input)))

\* the Parse iterator, run to its end: the decoded pairs in order
RECURSIVE parse(_)
parse(input) ==
    IF input = <<>> THEN <<>>
    ELSE LET split == splitn2(input, Amp)
             sequence == split[1]
             rest == IF Len(split) = 2 THEN split[2] ELSE <<>>
         IN IF sequence = <<>> THEN parse(rest)
            ELSE LET nv == splitn2(sequence, Eq)
                     name == nv[1]
                     value == IF Len(nv) = 2 THEN nv[2] ELSE <<>>
                 IN <<<<decode(name), decode(value)>>>> \o parse(rest)

----------------------------------------------------------------------------
(* HashMap and http::Extensions.                                           *)

EmptyMap == [k \in {} |-> <<>>]

\* HashMap::insert: the new value replaces the old one of the same key
MapInsert(m, k, v) == [x \in (DOMAIN m) \cup {k} |-> IF x = k THEN v ELSE m[x]]

\* variant: a pair whose name is already in the map is dropped
RECURSIVE collect_first(_, _)
collect_first(m, pairs) ==
    IF pairs = <<>> THEN m
    ELSE collect_first(IF pairs[1][1] \in DOMAIN m THEN m
                       ELSE MapInsert(m, pairs[1][1], pairs[1][2]), Tail(pairs))

\* Iterator::collect into a HashMap: insert the pairs from first to last
RECURSIVE collect(_, _)
collect(m, pairs) ==
    IF pairs = <<>> THEN m
    ELSE collect(MapInsert(m, pairs[1][1], pairs[1][2]), Tail(pairs))

\* variant: the parsed pairs are never assigned to q
QueryDecoder_unassigned(q) == EmptyMap

\* the map the middleware builds from uri().query()
QueryDecoder(q) ==
    IF q = None THEN EmptyMap ELSE collect(EmptyMap, parse(q.val))

----------------------------------------------------------------------------
(* core::str::FromStr for the target types of query_parsed.                *)

Ok(v) == [tag |-> "Ok", val |-> v]
Err(kind) == [tag |-> "Err", val |-> kind]

IsDigit(c) == c >= 48 /\ c <= 57

RECURSIVE DigitsValue(_, _)
DigitsValue(acc, ds) ==
    IF ds = <<>> THEN acc ELSE DigitsValue(acc * 10 + (ds[1] - 48), Tail(ds))

\* <usize as FromStr>::from_str: an optional "+" and at least one decimal
\* digit.  (A value of at most MaxLen digits is far below usize::MAX, so the
\* overflow error cannot arise from the enumerated query strings.)
parse_usize(s) ==
    IF s = <<>> THEN Err("Empty")
    ELSE IF s = <<Plus>> THEN Err("InvalidDigit")
    ELSE LET digits == IF s[1] = Plus THEN Tail(s) ELSE s
         IN IF \A i \in 1..Len(digits) : IsDigit(digits[i])
            THEN Ok(DigitsValue(0, digits))
            ELSE Err("InvalidDigit")

\* <String as FromStr>::from_str never fails
parse_String(s) == Ok(s)

\* str::parse::<T>()
str_parse(T, s) == IF T = "usize" THEN parse_usize(s) ELSE parse_String(s)

----------------------------------------------------------------------------
(* RequestQueryExt for Request<hyper::Body>, on the extensions e of a      *)
(* request.  Panic is the outcome of the failed expect().                  *)

Panic == [tag |-> "Panic"]
MapRef(m) == [tag |-> "Map", val |-> m]

\* variant: a missing Query is answered with an empty map
queries_silent(e) ==
    IF "Query" \in DOMAIN e THEN MapRef(e["Query"]) ELSE MapRef(EmptyMap)

queries(e) ==
    IF "Query" \in DOMAIN e THEN MapRef(e["Query"]) ELSE Panic

\* variant: a missing name is answered with the empty text
query_default(e, query_name) ==
    LET qs == queries(e)
    IN IF qs = Panic THEN Panic
       ELSE IF query_name \in DOMAIN qs.val THEN Some(qs.val[query_name]) ELSE Some(<<>>)

query(e, query_name) ==
    LET qs == queries(e)
    IN IF qs = Panic THEN Panic
       ELSE IF query_name \in DOMAIN qs.val THEN Some(qs.val[query_name]) ELSE None

\* variant: a value that does not parse is reported like a missing name
query_parsed_flat(e, query_name, T) ==
    LET t == query(e, query_name)
    IN IF t = Panic THEN Panic
       ELSE IF t = None THEN None
       ELSE IF str_parse(T, t.val).tag = "Err" THEN None
       ELSE Some(str_parse(T, t.val))

query_parsed(e, query_name, T) ==
    LET t == query(e, query_name)
    IN IF t = Panic THEN Panic
       ELSE IF t = None THEN None
       ELSE Some(str_parse(T, t.val))

----------------------------------------------------------------------------
(* The state: per request its URI's query, its extensions, whether it is   *)
(* being processed, and how often the middleware ran on it; the last       *)
(* operation of the server with its outcome; per request the first         *)
(* accessor call made since the middleware last ran.                       *)

Op(r, op, name, ty, out) == [req |-> r, op |-> op, name |-> name, ty |-> ty, out |-> out]
Call(op, name, ty, out) == [op |-> op, name |-> name, ty |-> ty, out |-> out]
NoCall == Call("none", <<>>, "", None)

Init ==
    /\ uri = [r \in ReqIds |-> None]
    /\ ext = [r \in ReqIds |-> EmptyMap]
    /\ pc = [r \in ReqIds |-> "absent"]
    /\ binds = [r \in ReqIds |-> 0]
    /\ last = Op("r1", "none", <<>>, "", None)
    /\ first = [r \in ReqIds |-> NoCall]

\* hyper hands over a new request: its URI is one of U and stays as it is,
\* its extensions are empty
NewRequest(r, U) ==
    /\ pc[r] = "absent"
    /\ \E u \in U : uri' = [uri EXCEPT ![r] = u]
    /\ ext' = [ext EXCEPT ![r] = EmptyMap]
    /\ pc' = [pc EXCEPT ![r] = "live"]
    /\ last' = Op(r, "new", <<>>, "", None)
    /\ UNCHANGED <<binds, first>>

\* another component stores a value of its own type in the extensions; the
\* type Query is pub(crate), so no other crate can name it as a key
InsertOther(r) ==
    /\ pc[r] = "live"
    /\ "Other" \notin DOMAIN ext[r]
    /\ ext' = [ext EXCEPT ![r] = MapInsert(ext[r], "Other", "meta")]
    /\ last' = Op(r, "insert_other", <<>>, "", None)
    /\ UNCHANGED <<uri, pc, binds, first>>

\* variant: a "%" that starts no escape is rejected
BinderResult_strict(u, e) ==
    IF u # None /\ Pct \in {percent_decode(u.val)[i] : i \in 1..Len(percent_decode(u.val))}
    THEN Err("malformed query")
    ELSE Ok([uri |-> u, ext |-> e])

\* what the middleware returns: Ok(req)
BinderResult(u, e) == Ok([uri |-> u, ext |-> e])

\* variant: the Query is kept in one place shared by all requests
query_parser_shared(r) ==
    /\ pc[r] = "live"
    /\ binds[r] < MaxBinds
    /\ LET q == QueryDecoder(uri[r])
       IN /\ ext' = [x \in ReqIds |-> IF pc[x] = "live" THEN MapInsert(ext[x], "Query", q) ELSE ext[x]]
          /\ last' = Op(r, "query_parser", <<>>, "", BinderResult(uri[r], ext'[r]))
    /\ binds' = [binds EXCEPT ![r] = binds[r] + 1]
    /\ first' = [first EXCEPT ![r] = NoCall]
    /\ UNCHANGED <<uri, pc>>

\* variant: the extensions are replaced by ones holding the Query alone
query_parser_fresh(r) ==
    /\ pc[r] = "live"
    /\ binds[r] < MaxBinds
    /\ LET q == QueryDecoder(uri[r])
           e == MapInsert(EmptyMap, "Query", q)
       IN /\ ext' = [ext EXCEPT ![r] = e]
          /\ last' = Op(r, "query_parser", <<>>, "", BinderResult(uri[r], e))
    /\ binds' = [binds EXCEPT ![r] = binds[r] + 1]
    /\ first' = [first EXCEPT ![r] = NoCall]
    /\ UNCHANGED <<uri, pc>>

query_parser_middleware_handler(r) ==
    /\ pc[r] = "live"
    /\ binds[r] < MaxBinds
    /\ LET q == QueryDecoder(uri[r])
           e == MapInsert(ext[r], "Query", q)
       IN /\ ext' = [ext EXCEPT ![r] = e]
          /\ last' = Op(r, "query_parser", <<>>, "", BinderResult(uri[r], e))
    /\ binds' = [binds EXCEPT ![r] = binds[r] + 1]
    /\ first' = [first EXCEPT ![r] = NoCall]
    /\ UNCHANGED <<uri, pc>>

\* variant: the lookup takes the entry out of the map
Accessor_consuming(r, op, name, ty, out) ==
    /\ pc[r] = "live"
    /\ last' = Op(r, op, name, ty, out)
    /\ pc' = [pc EXCEPT ![r] = IF out = Panic THEN "panicked" ELSE "live"]
    /\ first' = [first EXCEPT ![r] =
                    IF out # Panic /\ first[r] = NoCall
                    THEN Call(op, name, ty, out) ELSE first[r]]
    /\ ext' = [ext EXCEPT ![r] =
                  IF out = Panic THEN ext[r]
                  ELSE MapInsert(ext[r], "Query",
                          [n \in (DOMAIN ext[r]["Query"]) \ {name} |-> ext[r]["Query"][n]])]
    /\ UNCHANGED <<uri, binds>>

\* a handler calls an accessor on the request: a panic ends the processing
\* of the request, any other outcome is returned to the handler
Accessor(r, op, name, ty, out) ==
    /\ pc[r] = "live"
    /\ last' = Op(r, op, name, ty, out)
    /\ pc' = [pc EXCEPT ![r] = IF out = Panic THEN "panicked" ELSE "live"]
    /\ first' = [first EXCEPT ![r] =
                    IF out # Panic /\ first[r] = NoCall
                    THEN Call(op, name, ty, out) ELSE first[r]]
    /\ UNCHANGED <<uri, ext, binds>>

CallQueries(r) == Accessor(r, "queries", <<>>, "", queries(ext[r]))

CallQuery(r, n) == Accessor(r, "query", n, "", query(ext[r], n))

CallQueryParsed(r, n, T) == Accessor(r, "query_parsed", n, T, query_parsed(ext[r], n, T))

Next ==
    \E r \in OneReq :
        \/ NewRequest(r, Uris)
        \/ InsertOther(r)
        \/ query_parser_middleware_handler(r)
        \/ CallQueries(r)
        \/ \E n \in LookupNames : CallQuery(r, n)
        \/ \E n \in LookupNames, T \in ParseTypes : CallQueryParsed(r, n, T)

Spec == Init /\ [][Next]_vars

\* the decoder alone: every raw query string up to MaxLen through the middleware
NextDecode ==
    \E r \in OneReq :
        \/ NewRequest(r, DecodeUris)
        \/ query_parser_middleware_handler(r)

SpecDecode == Init /\ [][NextDecode]_vars

\* two requests in flight at once, their steps interleaved
NextTwo ==
    \E r \in ReqIds :
        \/ NewRequest(r, TwoUris)
        \/ InsertOther(r)
        \/ query_parser_middleware_handler(r)
        \/ CallQueries(r)
        \/ \E n \in LookupNames : CallQuery(r, n)
        \/ \E n \in LookupNames, T \in ParseTypes : CallQueryParsed(r, n, T)

SpecTwo == Init /\ [][NextTwo]_vars

AccessorOps == {"queries", "query", "query_parsed"}

\* the middleware has run on request r
Bound(r) == binds[r] >= 1

----------------------------------------------------------------------------
(* The decoding rule as the documentation words it, written without the    *)
(* iterator: cut at every "&", cut each piece at its first "=", unescape,  *)
(* and let the last pair of a name give its value.                         *)

\* the pieces of s between the occurrences of c, in order
RefSplit(s, c) ==
    LET cuts == {0} \cup {i \in 1..Len(s) : s[i] = c} \cup {Len(s) + 1}
        cut(j) == CHOOSE x \in cuts : Cardinality({y \in cuts : y < x}) = j
    IN [j \in 1..(Cardinality(cuts) - 1) |-> SubSeq(s, cut(j - 1) + 1, cut(j) - 1)]

RefName(piece) ==
    LET eqs == {i \in 1..Len(piece) : piece[i] = Eq}
    IN IF eqs = {} THEN piece
       ELSE SubSeq(piece, 1, (CHOOSE i \in eqs : \A j \in eqs : i <= j) - 1)

RefValue(piece) ==
    LET eqs == {i \in 1..Len(piece) : piece[i] = Eq}
    IN IF eqs = {} THEN <<>>
       ELSE SubSeq(piece, (CHOOSE i \in eqs : \A j \in eqs : i <= j) + 1, Len(piece))

\* "+" is a space, "%XY" with hex digits X and Y is the byte XY, anything
\* else is itself; bytes that are no UTF-8 text become U+FFFD
RefUnescape(s) ==
    LET IsHex(b) == HexVal(b) >= 0
        esc == {i \in 1..Len(s) : s[i] = Pct /\ i + 2 <= Len(s) /\ IsHex(s[i + 1]) /\ IsHex(s[i + 2])}
        kept == {i \in 1..Len(s) : (i - 1) \notin esc /\ (i - 2) \notin esc}
        pos(j) == CHOOSE x \in kept : Cardinality({y \in kept : y < x}) = j - 1
        out(i) == IF i \in esc THEN HexVal(s[i + 1]) * 16 + HexVal(s[i + 2])
                  ELSE IF s[i] = Plus THEN Space ELSE s[i]
    IN decode_utf8_lossy([j \in 1..Cardinality(kept) |-> out(pos(j))])

\* the mapping of the pieces: each name to the value of its last piece
RefFold(pieces) ==
    LET names == {RefUnescape(RefName(pieces[i])) : i \in 1..Len(pieces)}
        lastOf(n) == CHOOSE i \in 1..Len(pieces) :
                        /\ RefUnescape(RefName(pieces[i])) = n
                        /\ \A j \in (i + 1)..Len(pieces) : RefUnescape(RefName(pieces[j])) # n
    IN [n \in names |-> RefUnescape(RefValue(pieces[lastOf(n)]))]

\* the decoded (name, value) pairs of the non-empty pieces, in order
RefPairs(s) ==
    LET pieces == SelectSeq(RefSplit(s, Amp), LAMBDA piece : piece # <<>>)
    IN [i \in 1..Len(pieces) |->
          <<RefUnescape(RefName(pieces[i])), RefUnescape(RefValue(pieces[i]))>>]

\* every piece counts, the empty ones too
RefMapAll(s) == RefFold(RefSplit(s, Amp))

\* the empty pieces are left out
RefMap(s) == RefFold(SelectSeq(RefSplit(s, Amp), LAMBDA piece : piece # <<>>))

----------------------------------------------------------------------------
(* C1: an accessor call on a request the middleware never ran on ends in   *)
(* the panic, never in an empty mapping or an absent value; on a request   *)
(* the middleware has run on, no accessor call panics.                     *)
C1_PanicIffUnbound ==
    last.op \in AccessorOps => (last.out = Panic <=> ~Bound(last.req))

C1_Witness ==
    /\ last.op = "query"
    /\ ~Bound(last.req)
    /\ last.out = Panic
    /\ pc[last.req] = "panicked"

(* C2: once the middleware has run on a request, its extensions hold the   *)
(* Query entry and that entry is the decoding of the request's URI; a      *)
(* further run of the middleware leaves the extensions as they were.       *)
C2_OneQueryOfUri ==
    /\ [](\A r \in ReqIds : Bound(r) =>
            /\ "Query" \in DOMAIN ext[r]
            /\ ext[r]["Query"] = RefMap(IF uri[r] = None THEN <<>> ELSE uri[r].val))
    /\ [][\A r \in ReqIds : (Bound(r) /\ binds'[r] = binds[r] + 1) => ext'[r] = ext[r]]_vars

C2_Witness ==
    /\ binds["r1"] = 2
    /\ uri["r1"] = Some(<<LetterB, Eq, Digit2>>)
    /\ DOMAIN ext["r1"] = {"Query"}
    /\ ext["r1"]["Query"][<<LetterB>>] = <<Digit2>>

(* C3: when a decoded name occurs in more than one pair of the query       *)
(* string, the mapping has that name once, with the decoded value of its   *)
(* last occurrence.                                                        *)
C3_LastWins ==
    \A r \in ReqIds : (Bound(r) /\ uri[r] # None) =>
        LET ps == RefPairs(uri[r].val)
            m == ext[r]["Query"]
        IN \A i, j \in 1..Len(ps) :
              (i < j /\ ps[i][1] = ps[j][1] /\ \A k \in (j + 1)..Len(ps) : ps[k][1] # ps[j][1])
                  => (ps[j][1] \in DOMAIN m /\ m[ps[j][1]] = ps[j][2])

C3_Witness ==
    /\ Bound("r1")
    /\ uri["r1"] = Some(<<LetterB, Eq, Digit2, Amp, LetterB>>)
    /\ ext["r1"]["Query"] = [n \in {<<LetterB>>} |-> <<>>]

\* C4 as first stated: the mapping is the fold of every piece between "&"s
C4_EveryPiece ==
    \A r \in ReqIds : (Bound(r) /\ uri[r] # None) =>
        ext[r]["Query"] = RefMapAll(uri[r].val)

(* C4: the mapping of a present query string is the fold, in order, of its *)
(* non-empty pieces between "&"s, each cut at its first "=" and unescaped  *)
(* ("+" to a space, then the percent escapes); "b=2+6" gives "2 6" and     *)
(* "b=%26" gives "&".                                                      *)
C4_NonEmptyPieces ==
    \A r \in ReqIds : (Bound(r) /\ uri[r] # None) =>
        LET m == ext[r]["Query"]
        IN /\ m = RefMap(uri[r].val)
           /\ uri[r].val = <<LetterB, Eq, Digit2, Plus, Digit6>>
                 => m = [n \in {<<LetterB>>} |-> <<Digit2, Space, Digit6>>]
           /\ uri[r].val = <<LetterB, Eq, Pct, Digit2, Digit6>>
                 => m = [n \in {<<LetterB>>} |-> <<Amp>>]
           /\ uri[r].val = <<LetterB, Eq, Digit2, Eq, Digit6>>
                 => m = [n \in {<<LetterB>>} |-> <<Digit2, Eq, Digit6>>]

C4_Witness ==
    /\ Bound("r1")
    /\ uri["r1"] = Some(<<LetterB, Eq, Pct, Digit2, Digit6>>)
    /\ ext["r1"]["Query"][<<LetterB>>] = <<Amp>>

(* C5: query_parsed on a bound request is absent exactly when the name is  *)
(* no key of the mapping, and otherwise the outcome of parsing the stored  *)
(* text, success or failure, as a value: "6" as usize is Ok(6), "b" is a   *)
(* parse failure.                                                          *)
C5_ParsedOutcome ==
    (last.op = "query_parsed" /\ Bound(last.req)) =>
        LET m == ext[last.req]["Query"]
            present == last.name \in DOMAIN m
        IN /\ last.out # Panic
           /\ last.out = None <=> ~present
           /\ present => /\ last.out.tag = "Some"
                         /\ last.out.val.tag \in {"Ok", "Err"}
                         /\ last.ty = "String" => last.out.val = Ok(m[last.name])
                         /\ (last.ty = "usize" /\ m[last.name] = <<Digit6>>)
                               => last.out.val = Ok(6)
                         /\ (last.ty = "usize" /\ m[last.name] = <<LetterB>>)
                               => last.out.val.tag = "Err"

C5_Witness ==
    /\ last.op = "query_parsed"
    /\ last.ty = "usize"
    /\ Bound(last.req)
    /\ ext[last.req]["Query"] = [n \in {<<LetterB>>} |-> <<LetterB>>]
    /\ last.name = <<LetterB>>
    /\ last.out = Some(Err("InvalidDigit"))

(* C6: whatever the URI, the middleware returns Ok with the request, has   *)
(* stored a Query in its extensions and leaves the request in processing.  *)
C6_BinderSucceeds ==
    last.op = "query_parser" =>
        /\ last.out.tag = "Ok"
        /\ last.out.val.uri = uri[last.req]
        /\ last.out.val.ext = ext[last.req]
        /\ "Query" \in DOMAIN ext[last.req]
        /\ pc[last.req] = "live"

C6_Witness ==
    /\ last.op = "query_parser"
    /\ last.out.tag = "Ok"
    /\ uri["r1"] = Some(<<LetterB, Eq, Pct, Digit2>>)
    /\ ext["r1"]["Query"] = [n \in {<<LetterB>>} |-> <<Pct, Digit2>>]

(* C7: for a URI without a query string the middleware stores the empty    *)
(* mapping: queries() then returns no entries and query(x) is absent for   *)
(* every x, neither of them panicking.                                     *)
C7_NoQueryEmptyMap ==
    \A r \in ReqIds : (Bound(r) /\ uri[r] = None) =>
        /\ DOMAIN ext[r]["Query"] = {}
        /\ (last.req = r /\ last.op = "queries") => last.out = MapRef(EmptyMap)
        /\ (last.req = r /\ last.op = "query") => last.out = None

C7_Witness ==
    /\ Bound("r1")
    /\ uri["r1"] = None
    /\ last.op = "query"
    /\ last.out = None

(* C8: with two requests in flight, a step of one request leaves the other *)
(* request as it was, and what an accessor returns is what the decoding of *)
(* that request's own URI gives.                                           *)
C8_Isolation ==
    /\ [](last.op \in AccessorOps /\ last.out # Panic =>
            LET own == [q \in {"Query"} |-> QueryDecoder(uri[last.req])]
            IN last.out = IF last.op = "queries" THEN queries(own)
                          ELSE IF last.op = "query" THEN query(own, last.name)
                          ELSE query_parsed(own, last.name, last.ty))
    /\ [][\A r \in ReqIds : last'.req # r =>
            /\ uri'[r] = uri[r]
            /\ ext'[r] = ext[r]
            /\ pc'[r] = pc[r]
            /\ binds'[r] = binds[r]
            /\ first'[r] = first[r]]_vars

C8_Witness ==
    /\ Bound("r1") /\ Bound("r2")
    /\ uri["r1"] = Some(<<LetterB, Eq, Digit2>>)
    /\ uri["r2"] = Some(<<LetterB, Eq, Digit6>>)
    /\ ext["r1"]["Query"][<<LetterB>>] = <<Digit2>>
    /\ last = Op("r2", "query", <<LetterB>>, "", Some(<<Digit6>>))

(* C9: an accessor call changes neither the URI nor the extensions; a call *)
(* repeated with no run of the middleware in between returns what the      *)
(* first one returned, and query(name) is the lookup of name in what       *)
(* queries() returned.                                                     *)
C9_AccessorsPure ==
    /\ [][last'.op \in AccessorOps => (uri' = uri /\ ext' = ext /\ binds' = binds)]_vars
    /\ [](last.op \in AccessorOps /\ last.out # Panic =>
            LET f == first[last.req]
            IN /\ (f.op = last.op /\ f.name = last.name /\ f.ty = last.ty)
                     => last.out = f.out
               /\ (f.op = "queries" /\ last.op = "query")
                     => last.out = IF last.name \in DOMAIN f.out.val
                                   THEN Some(f.out.val[last.name]) ELSE None)

C9_Witness ==
    /\ first["r1"].op = "queries"
    /\ last.op = "query"
    /\ last.out.tag = "Some"

(* C10: a run of the middleware leaves the URI and every other entry of    *)
(* the extensions as they were and returns that request; its only change   *)
(* is the entry keyed by Query, which no other operation writes.           *)
C10_OnlyOwnSlot ==
    [][\A r \in ReqIds :
          /\ (last'.op = "query_parser" /\ last'.req = r) =>
                /\ uri'[r] = uri[r]
                /\ DOMAIN ext'[r] = (DOMAIN ext[r]) \cup {"Query"}
                /\ \A k \in (DOMAIN ext[r]) \ {"Query"} : ext'[r][k] = ext[r][k]
                /\ last'.out = Ok([uri |-> uri[r], ext |-> ext'[r]])
          /\ last'.op # "query_parser" =>
                /\ ("Query" \in DOMAIN ext'[r]) <=> ("Query" \in DOMAIN ext[r])
                /\ "Query" \in DOMAIN ext[r] => ext'[r]["Query"] = ext[r]["Query"]
      ]_vars

C10_Witness ==
    /\ last.op = "query_parser"
    /\ DOMAIN ext[last.req] = {"Query", "Other"}
    /\ ext[last.req]["Other"] = "meta"
    /\ binds[last.req] = 1

====
